---- MODULE Spec2Model ----
(***************************************************************************)
(* A model of src/rechner.py: the whitelisting expression evaluator        *)
(* (evaluate, _eval_node and the whitelist tables) and its command line.   *)
(*                                                                         *)
(* An expression is modelled from the point where ast.parse has answered:  *)
(* either it raised SyntaxError or it returned the syntax tree.  A tree is *)
(* a record [kind, id, value, kids]; kids are the child nodes in the order *)
(* of the node's fields in Python's ast module, operator and context nodes *)
(* included, because ast.walk visits those as well.                        *)
(*                                                                         *)
(* Numbers: a Python int is [ty |-> "int", n, d |-> 1]; a float is the     *)
(* exact fraction n/d (d > 0, lowest terms; rounding is not modelled),     *)
(* inf is 1/0, -inf is -1/0, nan is 0/0, and d = -1 is a finite float or a *)
(* complex number whose digits the model does not track (an irrational     *)
(* result such as sqrt(2)); an untracked float is taken to be nonzero.     *)
(***************************************************************************)
EXTENDS Integers, Sequences, FiniteSets, TLC

VARIABLES pc, expr, names, result, tables, argv, stdin, pos, stdout, exitcode

vars == <<pc, expr, names, result, tables, argv, stdin, pos, stdout, exitcode>>

-----------------------------------------------------------------------------
(* Values *)

PyInt(n) == [ty |-> "int", n |-> n, d |-> 1]

Abs(x) == IF x < 0 THEN -x ELSE x

Sign(x) == IF x < 0 THEN -1 ELSE IF x = 0 THEN 0 ELSE 1

RECURSIVE GCD(_, _)
GCD(a, b) == IF b = 0 THEN a ELSE GCD(b, a % b)

\* The float n/d, d > 0, in lowest terms.
Float(n, d) ==
  LET g == GCD(Abs(n), d)
  IN  [ty |-> "float", n |-> n \div g, d |-> d \div g]

Inf == [ty |-> "float", n |-> 1, d |-> 0]

NegInf == [ty |-> "float", n |-> -1, d |-> 0]

NaN == [ty |-> "float", n |-> 0, d |-> 0]

Untracked == [ty |-> "float", n |-> 0, d |-> -1]

UntrackedComplex == [ty |-> "complex", n |-> 0, d |-> -1]

\* A str constant ('a'), a callable passed as a variable (f=abs), no value.
StrValue == [ty |-> "str", n |-> 0, d |-> 1]

Callable == [ty |-> "callable", n |-> 0, d |-> 1]

NoValue == [ty |-> "none", n |-> 0, d |-> 1]

\* isinstance(value, (int, float, complex))
IsNumber(v) == v.ty \in {"int", "float", "complex"}

IsReal(v) == v.ty \in {"int", "float"}

IsNan(v) == v.ty = "float" /\ v.d = 0 /\ v.n = 0

IsInf(v) == v.ty = "float" /\ v.d = 0 /\ v.n # 0

IsFinite(v) == v.d > 0

IsZero(v) == v.d > 0 /\ v.n = 0

IsIntegral(v) == v.d = 1

Neg(v) == [v EXCEPT !.n = -v.n]

AsFloat(v) == [v EXCEPT !.ty = "float"]

\* floor(a / b) for integers, b # 0
FloorDivInt(a, b) == IF b > 0 THEN a \div b ELSE (-a) \div (-b)

ModInt(a, b) == a - b * FloorDivInt(a, b)

RECURSIVE IntPow(_, _)
IntPow(b, e) == IF e = 0 THEN 1 ELSE b * IntPow(b, e - 1)

RECURSIVE XorNat(_, _)
XorNat(a, b) ==
  IF a = 0 THEN b
  ELSE IF b = 0 THEN a
  ELSE (((a % 2) + (b % 2)) % 2) + (2 * XorNat(a \div 2, b \div 2))

\* Python's ^ on ints of either sign (two's complement: ~x = -x - 1)
XorInt(a, b) ==
  IF a >= 0 /\ b >= 0 THEN XorNat(a, b)
  ELSE IF a < 0 /\ b < 0 THEN XorNat(-a - 1, -b - 1)
  ELSE IF a < 0 THEN -XorNat(-a - 1, b) - 1
  ELSE -XorNat(a, -b - 1) - 1

RECURSIVE Fact(_)
Fact(n) == IF n <= 1 THEN 1 ELSE n * Fact(n - 1)

IsSquare(n) == n >= 0 /\ \E r \in 0..n : r * r = n

Root(n) == CHOOSE r \in 0..n : r * r = n

-----------------------------------------------------------------------------
(* What an operation answers: a value, or the exception it raises.  arg is *)
(* the name or node kind the message of an EvalError ends with.            *)

Return(v) == [ok |-> TRUE, val |-> v, exc |-> "", msg |-> "", arg |-> ""]

Raise(exc, msg, arg) ==
  [ok |-> FALSE, val |-> NoValue, exc |-> exc, msg |-> msg, arg |-> arg]

-----------------------------------------------------------------------------
(* The functions the whitelist tables map to (operator and math), as       *)
(* CPython computes them on the values above.  An untracked operand gives  *)
(* an untracked result of the type Python would give and passes a domain   *)
(* check; every other case is exact.                                       *)

IsUntracked(v) == v.d = -1

AddF(a, b) ==
  IF IsNan(a) \/ IsNan(b) THEN NaN
  ELSE IF IsInf(a) THEN (IF IsInf(b) /\ b.n # a.n THEN NaN ELSE a)
  ELSE IF IsInf(b) THEN b
  ELSE Float((a.n * b.d) + (b.n * a.d), a.d * b.d)

MulF(a, b) ==
  IF IsNan(a) \/ IsNan(b) THEN NaN
  ELSE IF IsInf(a) \/ IsInf(b)
       THEN (IF IsZero(a) \/ IsZero(b) THEN NaN
             ELSE IF Sign(a.n) * Sign(b.n) > 0 THEN Inf ELSE NegInf)
  ELSE Float(a.n * b.n, a.d * b.d)

\* a / b, b not zero
DivF(a, b) ==
  IF IsNan(a) \/ IsNan(b) THEN NaN
  ELSE IF IsInf(a)
       THEN (IF IsInf(b) THEN NaN
             ELSE IF Sign(a.n) * Sign(b.n) > 0 THEN Inf ELSE NegInf)
  ELSE IF IsInf(b) THEN Float(0, 1)
  ELSE Float(a.n * b.d * Sign(b.n), a.d * Abs(b.n))

\* a // b on floats, b not zero
FloorDivF(a, b) ==
  IF IsNan(a) \/ IsNan(b) \/ IsInf(a) THEN NaN
  ELSE IF IsInf(b)
       THEN (IF a.n = 0 \/ Sign(a.n) = Sign(b.n) THEN Float(0, 1) ELSE Float(-1, 1))
  ELSE Float(FloorDivInt(a.n * b.d, a.d * b.n), 1)

\* a % b on floats, b not zero: the sign of the result follows the divisor
ModF(a, b) ==
  IF IsNan(a) \/ IsNan(b) \/ IsInf(a) THEN NaN
  ELSE IF IsInf(b)
       THEN (IF a.n = 0 \/ Sign(a.n) = Sign(b.n) THEN AsFloat(a) ELSE b)
  ELSE LET q == FloorDivInt(a.n * b.d, a.d * b.n)
       IN  Float((a.n * b.d) - (q * b.n * a.d), a.d * b.d)

\* a ** b where one of them is a float
PowF(a, b) ==
  IF IsZero(b) \/ (IsFinite(a) /\ a.n = a.d) THEN Return(Float(1, 1))
  ELSE IF IsNan(a) \/ IsNan(b) THEN Return(NaN)
  ELSE IF IsInf(b)
       THEN (IF Abs(a.n) = a.d THEN Return(Float(1, 1))
             ELSE IF (Abs(a.n) > a.d /\ a.d > 0) \/ IsInf(a)
                  THEN Return(IF b.n > 0 THEN Inf ELSE Float(0, 1))
                  ELSE Return(IF b.n > 0 THEN Float(0, 1) ELSE Inf))
  ELSE IF IsInf(a)
       THEN (IF b.n < 0 THEN Return(Float(0, 1))
             ELSE IF a.n < 0 /\ IsIntegral(b) /\ b.n % 2 = 1 THEN Return(NegInf)
             ELSE Return(Inf))
  ELSE IF IsZero(a) /\ b.n < 0
       THEN Raise("ZeroDivisionError", "0.0 cannot be raised to a negative power", "")
  ELSE IF IsIntegral(b)
       THEN (IF b.n >= 0
             THEN Return(Float(IntPow(a.n, b.n), IntPow(a.d, b.n)))
             ELSE Return(Float(IntPow(Sign(a.n), -b.n) * IntPow(a.d, -b.n),
                               IntPow(Abs(a.n), -b.n))))
  ELSE IF a.n < 0 THEN Return(UntrackedComplex)
  ELSE IF a.n = 0 THEN Return(Float(0, 1))
  ELSE Return(Untracked)

ArithOps == {"Add", "Sub", "Mult", "Div", "Pow"}

DivOps == {"Div", "FloorDiv", "Mod"}

BitOps == {"BitXor", "LShift", "RShift"}

\* int op int
IntBin(op, l, r) ==
  CASE op = "Add" -> Return(PyInt(l.n + r.n))
    [] op = "Sub" -> Return(PyInt(l.n - r.n))
    [] op = "Mult" -> Return(PyInt(l.n * r.n))
    [] op = "Div" ->
         IF r.n = 0 THEN Raise("ZeroDivisionError", "division by zero", "")
         ELSE Return(Float(l.n * Sign(r.n), Abs(r.n)))
    [] op = "FloorDiv" ->
         IF r.n = 0
         THEN Raise("ZeroDivisionError", "integer division or modulo by zero", "")
         ELSE Return(PyInt(FloorDivInt(l.n, r.n)))
    [] op = "Mod" ->
         IF r.n = 0 THEN Raise("ZeroDivisionError", "integer modulo by zero", "")
         ELSE Return(PyInt(ModInt(l.n, r.n)))
    [] op = "Pow" ->
         IF r.n >= 0 THEN Return(PyInt(IntPow(l.n, r.n)))
         ELSE PowF(AsFloat(l), AsFloat(r))
    [] op = "BitXor" -> Return(PyInt(XorInt(l.n, r.n)))
    [] op = "LShift" ->
         IF r.n < 0 THEN Raise("ValueError", "negative shift count", "")
         ELSE Return(PyInt(l.n * IntPow(2, r.n)))
    [] op = "RShift" ->
         IF r.n < 0 THEN Raise("ValueError", "negative shift count", "")
         ELSE Return(PyInt(l.n \div IntPow(2, r.n)))

\* float op float, after Python has converted an int operand to float
FloatBin(op, l, r) ==
  CASE op = "Add" -> Return(AddF(l, r))
    [] op = "Sub" -> Return(AddF(l, Neg(r)))
    [] op = "Mult" -> Return(MulF(l, r))
    [] op = "Div" ->
         IF IsZero(r) THEN Raise("ZeroDivisionError", "float division by zero", "")
         ELSE Return(DivF(l, r))
    [] op = "FloorDiv" ->
         IF IsZero(r)
         THEN Raise("ZeroDivisionError", "float floor division by zero", "")
         ELSE Return(FloorDivF(l, r))
    [] op = "Mod" ->
         IF IsZero(r) THEN Raise("ZeroDivisionError", "float modulo", "")
         ELSE Return(ModF(l, r))
    [] op = "Pow" -> PowF(l, r)
    [] op \in BitOps -> Raise("TypeError", "unsupported operand type(s)", "")

\* an operand the model does not track: the type of the result is Python's
UntrackedBin(op, l, r) ==
  IF op \in DivOps /\ IsZero(r) /\ ~(op # "Div" /\ l.ty = "complex")
  THEN Raise("ZeroDivisionError", "division by zero", "")
  ELSE IF l.ty = "complex" \/ r.ty = "complex"
       THEN (IF op \in ArithOps THEN Return(UntrackedComplex)
             ELSE Raise("TypeError", "unsupported operand type(s)", ""))
  ELSE IF op \in BitOps THEN Raise("TypeError", "unsupported operand type(s)", "")
  ELSE Return(Untracked)

\* _BINOPS[op_type](left, right)
ApplyBin(op, l, r) ==
  IF ~IsNumber(l) \/ ~IsNumber(r)
  THEN Raise("TypeError", "unsupported operand type(s)", "")
  ELSE IF IsUntracked(l) \/ IsUntracked(r) THEN UntrackedBin(op, l, r)
  ELSE IF l.ty = "int" /\ r.ty = "int" THEN IntBin(op, l, r)
  ELSE FloatBin(op, AsFloat(l), AsFloat(r))

\* _UNARYOPS[op_type](val)
ApplyUnary(op, v) ==
  IF ~IsNumber(v) THEN Raise("TypeError", "bad operand type for unary", "")
  ELSE CASE op = "UAdd" -> Return(v)
         [] op = "USub" -> Return(Neg(v))
         [] op = "Invert" ->
              IF v.ty = "int" /\ ~IsUntracked(v) THEN Return(PyInt(-v.n - 1))
              ELSE Raise("TypeError", "bad operand type for unary ~", "")

-----------------------------------------------------------------------------
(* math functions *)

\* the argument counts math.<fname> accepts
Arity(fname) ==
  IF fname = "pow" THEN {2} ELSE IF fname = "log" THEN {1, 2} ELSE {1}

\* the value where it is a fraction, untracked elsewhere
SqrtF(x) ==
  IF IsNan(x) THEN Return(NaN)
  ELSE IF IsInf(x) THEN (IF x.n > 0 THEN Return(Inf)
                         ELSE Raise("ValueError", "math domain error", ""))
  ELSE IF x.n < 0 THEN Raise("ValueError", "math domain error", "")
  ELSE IF IsSquare(x.n) /\ IsSquare(x.d) THEN Return(Float(Root(x.n), Root(x.d)))
  ELSE Return(Untracked)

\* math.floor and math.ceil answer an int
FloorCeil(fname, x) ==
  IF IsInf(x) THEN Raise("OverflowError", "cannot convert float infinity to integer", "")
  ELSE IF IsNan(x) THEN Raise("ValueError", "cannot convert float NaN to integer", "")
  ELSE IF fname = "floor" THEN Return(PyInt(FloorDivInt(x.n, x.d)))
  ELSE Return(PyInt(-FloorDivInt(-x.n, x.d)))

FactorialF(x) ==
  IF x.ty # "int" THEN Raise("TypeError", "object cannot be interpreted as an integer", "")
  ELSE IF x.n < 0 THEN Raise("ValueError", "factorial() not defined for negative values", "")
  ELSE Return(PyInt(Fact(x.n)))

\* math.log(x) and math.log(x, base)
LogF(args) ==
  LET x == args[1]
      bad(v) == IsNan(v) = FALSE /\ (v.n <= 0) /\ ~IsUntracked(v)
  IN  IF bad(x) THEN Raise("ValueError", "math domain error", "")
      ELSE IF Len(args) = 2 /\ bad(args[2]) THEN Raise("ValueError", "math domain error", "")
      ELSE IF Len(args) = 2 /\ IsFinite(args[2]) /\ args[2].n = args[2].d
           THEN Raise("ZeroDivisionError", "float division by zero", "")
      ELSE IF IsNan(x) THEN Return(NaN)
      ELSE IF Len(args) = 1 /\ IsFinite(x) /\ x.n = x.d THEN Return(Float(0, 1))
      ELSE IF Len(args) = 1 /\ IsInf(x) THEN Return(Inf)
      ELSE Return(Untracked)

\* math.pow(x, y): always a float, and never a complex number
MathPow(x, y) ==
  IF IsFinite(x) /\ IsFinite(y) /\ x.n = 0 /\ y.n < 0
  THEN Raise("ValueError", "math domain error", "")
  ELSE IF IsFinite(x) /\ IsFinite(y) /\ x.n < 0 /\ ~IsIntegral(y)
       THEN Raise("ValueError", "math domain error", "")
  ELSE PowF(AsFloat(x), AsFloat(y))

\* the remaining one-argument functions: exact at 0 (and acos at 1)
Transcendental(fname, x) ==
  IF IsNan(x) THEN Return(NaN)
  ELSE IF IsInf(x) /\ fname \in {"sin", "cos", "tan", "asin", "acos"}
       THEN Raise("ValueError", "math domain error", "")
  ELSE IF fname \in {"asin", "acos"} /\ IsFinite(x) /\ Abs(x.n) > x.d
       THEN Raise("ValueError", "math domain error", "")
  ELSE IF fname \in {"log10", "log2"} THEN LogF(<<x>>)
  ELSE IF IsInf(x)
       THEN (IF fname \in {"sinh", "degrees", "radians"} THEN Return(AsFloat(x))
             ELSE IF fname = "cosh" THEN Return(Inf)
             ELSE IF fname = "exp" THEN Return(IF x.n > 0 THEN Inf ELSE Float(0, 1))
             ELSE IF fname = "tanh" THEN Return(Float(x.n, 1))
             ELSE Return(Untracked))
  ELSE IF IsZero(x)
       THEN (IF fname \in {"cos", "cosh", "exp"} THEN Return(Float(1, 1))
             ELSE IF fname = "acos" THEN Return(Untracked)
             ELSE Return(Float(0, 1)))
  ELSE IF fname = "acos" /\ IsFinite(x) /\ x.n = x.d THEN Return(Float(0, 1))
  ELSE Return(Untracked)

\* _ALLOWED_FUNCS[fname](*args), fname a name of the table
ApplyFunc(fname, args) ==
  IF Len(args) \notin Arity(fname)
  THEN Raise("TypeError", "wrong number of arguments", fname)
  ELSE IF \E i \in 1..Len(args) : ~IsReal(args[i])
       THEN Raise("TypeError", "must be real number", "")
  ELSE LET x == args[1]
       IN  IF fname = "factorial" THEN
                (IF IsUntracked(x) THEN Raise("TypeError", "object cannot be interpreted as an integer", "")
                 ELSE FactorialF(x))
           ELSE IF \E i \in 1..Len(args) : IsUntracked(args[i]) THEN Return(Untracked)
           ELSE IF fname = "pow" THEN MathPow(x, args[2])
           ELSE IF fname = "log" THEN LogF(args)
           ELSE IF fname = "sqrt" THEN SqrtF(x)
           ELSE IF fname \in {"floor", "ceil"} THEN FloorCeil(fname, x)
           ELSE IF fname = "fabs" THEN Return(AsFloat([x EXCEPT !.n = Abs(x.n)]))
           ELSE Transcendental(fname, x)

-----------------------------------------------------------------------------
(* Syntax trees, as ast.parse builds them *)

Node(kind, id, value, kids) ==
  [kind |-> kind, id |-> id, value |-> value, kids |-> kids]

Load == Node("Load", "", NoValue, <<>>)

\* an operator node: ast.Add(), ast.USub(), ...
Op(tag) == Node(tag, "", NoValue, <<>>)

Constant(v) == Node("Constant", "", v, <<>>)

Name(id) == Node("Name", id, NoValue, <<Load>>)

UnaryOp(op, operand) == Node("UnaryOp", "", NoValue, <<Op(op), operand>>)

BinOp(left, op, right) == Node("BinOp", "", NoValue, <<left, Op(op), right>>)

keyword(arg, value) == Node("keyword", arg, NoValue, <<value>>)

Starred(value) == Node("Starred", "", NoValue, <<value, Load>>)

Call(func, args, keywords) == Node("Call", "", NoValue, <<func>> \o args \o keywords)

Tuple(elts) == Node("Tuple", "", NoValue, elts \o <<Load>>)

Attribute(value, attr) == Node("Attribute", attr, NoValue, <<value, Load>>)

Expression(body) == Node("Expression", "", NoValue, <<body>>)

NoNode == Node("", "", NoValue, <<>>)

\* the fields _eval_node reads, by the place of the child in kids
IsArg(k) == k.kind # "keyword"

CallFunc(node) == node.kids[1]

CallArgs(node) == SelectSeq(Tail(node.kids), IsArg)

\* the place in kids of a Call's i-th argument, of a BinOp's operands, of a
\* UnaryOp's operand
ArgAt(i) == i + 1

LeftAt == 1

RightAt == 3

OperandAt == 2

-----------------------------------------------------------------------------
(* Mappings (the variables, the constant table) are sets of <<name, value>> *)
(* pairs with unique names.                                                 *)

Has(m, k) == \E p \in m : p[1] = k

Get(m, k) == (CHOOSE p \in m : p[1] = k)[2]

-----------------------------------------------------------------------------
(* The whitelist tables.  The functions the operator tables map to are     *)
(* ApplyBin, ApplyUnary and ApplyFunc; the tables carry the keys.          *)

BINOPS ==
  {"Add", "Sub", "Mult", "Div", "FloorDiv", "Mod", "Pow", "BitXor", "LShift", "RShift"}

UNARYOPS == {"UAdd", "USub", "Invert"}

ALLOWED_FUNCS ==
  {"sin", "cos", "tan", "asin", "acos", "atan", "sinh", "cosh", "tanh",
   "log", "log10", "log2", "exp", "sqrt", "ceil", "floor", "fabs",
   "degrees", "radians", "pow", "factorial"}

\* pi, e and tau by the fractions the model carries for them
ALLOWED_CONSTS ==
  {<<"pi", Float(22, 7)>>, <<"e", Float(19, 7)>>, <<"tau", Float(44, 7)>>,
   <<"inf", Inf>>, <<"nan", NaN>>}

Tables ==
  [BINOPS |-> BINOPS, UNARYOPS |-> UNARYOPS,
   ALLOWED_FUNCS |-> ALLOWED_FUNCS, ALLOWED_CONSTS |-> ALLOWED_CONSTS]

-----------------------------------------------------------------------------
(* What _eval_node answers: the outcome, with the record of what it did.   *)
(* log lists the nodes _eval_node was entered for, in order, each by its   *)
(* path (the places in kids from the node evaluated down to it); applied   *)
(* lists the calls made at line 90: the table the callable was taken from, *)
(* its name, the argument values and the path of the Call node.            *)

Done(outcome, log, applied) ==
  [ok |-> outcome.ok, val |-> outcome.val, exc |-> outcome.exc,
   msg |-> outcome.msg, arg |-> outcome.arg, log |-> log, applied |-> applied]

Outcome(r) ==
  [ok |-> r.ok, val |-> r.val, exc |-> r.exc, msg |-> r.msg, arg |-> r.arg]

Under(i, paths) == [k \in 1..Len(paths) |-> <<i>> \o paths[k]]

AppliedUnder(i, applied) ==
  [k \in 1..Len(applied) |-> [applied[k] EXCEPT !.at = <<i>> \o @]]

\* a child's answer, seen from the parent whose kids[i] it is
Sub(i, r) == [r EXCEPT !.log = Under(i, @), !.applied = AppliedUnder(i, @)]

RECURSIVE eval_node(_, _, _)

\* ResolveName with the two lookups in the other order
ResolveNameConstsFirst(id, names_, T) ==
  IF Has(T.ALLOWED_CONSTS, id) THEN Return(Get(T.ALLOWED_CONSTS, id))
  ELSE IF Has(names_, id) THEN Return(Get(names_, id))
  ELSE Raise("EvalError", "Unknown identifier", id)

\* lines 57-62
ResolveName(id, names_, T) ==
  IF Has(names_, id) THEN Return(Get(names_, id))
  ELSE IF Has(T.ALLOWED_CONSTS, id) THEN Return(Get(T.ALLOWED_CONSTS, id))
  ELSE Raise("EvalError", "Unknown identifier", id)

\* lines 65-70
EvalUnaryOp(node, names_, T) ==
  LET op_type == node.kids[1].kind
  IN  IF op_type \in T.UNARYOPS
      THEN LET val == Sub(OperandAt, eval_node(node.kids[OperandAt], names_, T))
           IN  IF val.ok THEN Done(ApplyUnary(op_type, val.val), val.log, val.applied)
               ELSE val
      ELSE Done(Raise("EvalError", "Unsupported unary operator", op_type), <<>>, <<>>)

\* EvalBinOp with the right operand evaluated before the left one
EvalBinOpRightFirst(node, names_, T) ==
  LET right == Sub(RightAt, eval_node(node.kids[RightAt], names_, T))
      left == Sub(LeftAt, eval_node(node.kids[LeftAt], names_, T))
      op_type == node.kids[2].kind
      log == right.log \o left.log
      applied == right.applied \o left.applied
  IN  IF ~right.ok THEN right
      ELSE IF ~left.ok THEN Done(Outcome(left), log, applied)
      ELSE IF op_type \in T.BINOPS
           THEN Done(ApplyBin(op_type, left.val, right.val), log, applied)
      ELSE Done(Raise("EvalError", "Unsupported binary operator", op_type), log, applied)

\* lines 73-79: left, then right, then the table
EvalBinOp(node, names_, T) ==
  LET left == Sub(LeftAt, eval_node(node.kids[LeftAt], names_, T))
      right == Sub(RightAt, eval_node(node.kids[RightAt], names_, T))
      op_type == node.kids[2].kind
      log == left.log \o right.log
      applied == left.applied \o right.applied
  IN  IF ~left.ok THEN left
      ELSE IF ~right.ok THEN Done(Outcome(right), log, applied)
      ELSE IF op_type \in T.BINOPS
           THEN Done(ApplyBin(op_type, left.val, right.val), log, applied)
      ELSE Done(Raise("EvalError", "Unsupported binary operator", op_type), log, applied)

\* line 88: [_eval_node(a, names) for a in node.args], from argument i on;
\* vals are the values so far.  The first argument that raises ends it.
RECURSIVE EvalArgs(_, _, _, _, _)
EvalArgs(args, i, names_, T, acc) ==
  IF i > Len(args) THEN acc
  ELSE LET a == Sub(ArgAt(i), eval_node(args[i], names_, T))
           log == acc.log \o a.log
           applied == acc.applied \o a.applied
       IN  IF ~a.ok THEN [ok |-> FALSE, vals |-> acc.vals, err |-> Outcome(a),
                          log |-> log, applied |-> applied]
           ELSE EvalArgs(args, i + 1, names_, T,
                         [ok |-> TRUE, vals |-> Append(acc.vals, a.val),
                          err |-> acc.err, log |-> log, applied |-> applied])

NoArgs ==
  [ok |-> TRUE, vals |-> <<>>, err |-> Return(NoValue), log |-> <<>>, applied |-> <<>>]

\* EvalCall taking the callable from the variables when the name is bound
\* there: what the caller's callable answers is not known
EvalCallAnyCallee(node, names_, T) ==
  LET func == CallFunc(node)
      fname == func.id
      bound == func.kind = "Name" /\ Has(names_, fname)
  IN  IF func.kind # "Name"
      THEN Done(Raise("EvalError", "Only direct function calls are allowed", ""), <<>>, <<>>)
      ELSE IF ~bound /\ fname \notin T.ALLOWED_FUNCS
           THEN Done(Raise("EvalError", "Function not allowed", fname), <<>>, <<>>)
      ELSE LET args == EvalArgs(CallArgs(node), 1, names_, T, NoArgs)
           IN  IF ~args.ok THEN Done(args.err, args.log, args.applied)
               ELSE Done(IF bound THEN Return(Untracked) ELSE ApplyFunc(fname, args.vals),
                         args.log,
                         Append(args.applied,
                                [table |-> IF bound THEN "names" ELSE "_ALLOWED_FUNCS",
                                 name |-> fname, args |-> args.vals, at |-> <<>>]))

\* EvalCall with the arguments evaluated before the name is looked up
EvalCallArgsFirst(node, names_, T) ==
  LET func == CallFunc(node)
      fname == func.id
      args == EvalArgs(CallArgs(node), 1, names_, T, NoArgs)
  IN  IF func.kind # "Name"
      THEN Done(Raise("EvalError", "Only direct function calls are allowed", ""), <<>>, <<>>)
      ELSE IF ~args.ok THEN Done(args.err, args.log, args.applied)
      ELSE IF fname \notin T.ALLOWED_FUNCS
           THEN Done(Raise("EvalError", "Function not allowed", fname),
                     args.log, args.applied)
      ELSE Done(ApplyFunc(fname, args.vals), args.log,
                Append(args.applied,
                       [table |-> "_ALLOWED_FUNCS", name |-> fname,
                        args |-> args.vals, at |-> <<>>]))

\* lines 82-90.  node.keywords is not read.
EvalCall(node, names_, T) ==
  LET func == CallFunc(node)
      fname == func.id
  IN  IF func.kind # "Name"
      THEN Done(Raise("EvalError", "Only direct function calls are allowed", ""), <<>>, <<>>)
      ELSE IF fname \notin T.ALLOWED_FUNCS
           THEN Done(Raise("EvalError", "Function not allowed", fname), <<>>, <<>>)
      ELSE LET args == EvalArgs(CallArgs(node), 1, names_, T, NoArgs)
           IN  IF ~args.ok THEN Done(args.err, args.log, args.applied)
               ELSE Done(ApplyFunc(fname, args.vals), args.log,
                         Append(args.applied,
                                [table |-> "_ALLOWED_FUNCS", name |-> fname,
                                 args |-> args.vals, at |-> <<>>]))

\* lines 47-94.  The ast.Num branch (line 53) is the Constant branch: in a
\* Python that has ast.Num, a node is an ast.Num only if it is a Constant.
eval_node(node, names_, T) ==
  LET r == CASE node.kind = "Constant" ->
                  IF IsNumber(node.value) THEN Done(Return(node.value), <<>>, <<>>)
                  ELSE Done(Raise("EvalError", "Unsupported constant", node.value.ty),
                            <<>>, <<>>)
             [] node.kind = "Name" -> Done(ResolveName(node.id, names_, T), <<>>, <<>>)
             [] node.kind = "UnaryOp" -> EvalUnaryOp(node, names_, T)
             [] node.kind = "BinOp" -> EvalBinOp(node, names_, T)
             [] node.kind = "Call" -> EvalCall(node, names_, T)
             [] OTHER -> Done(Raise("EvalError", "Unsupported expression element",
                                    node.kind), <<>>, <<>>)
  IN  [r EXCEPT !.log = <<<<>>>> \o @]

-----------------------------------------------------------------------------
(* evaluate *)

\* ast.walk: breadth first, a node's children in the order of its fields
RECURSIVE WalkFrom(_)
WalkFrom(todo) ==
  IF todo = <<>> THEN <<>>
  ELSE <<Head(todo)>> \o WalkFrom(Tail(todo) \o Head(todo).kids)

walk(node) == WalkFrom(<<node>>)

\* WalkAllowed with ast.keyword let through as well
WalkAllowedWithKeyword ==
  {"Expression", "BinOp", "UnaryOp", "Call", "Load", "Name", "Constant", "Num",
   "Pow", "Add", "Sub", "Mult", "Div", "Mod", "FloorDiv", "UAdd", "USub",
   "Invert", "LShift", "RShift", "BitXor", "Tuple", "keyword"}

\* lines 114-119, the node types the walk lets through
WalkAllowed ==
  {"Expression", "BinOp", "UnaryOp", "Call", "Load", "Name", "Constant", "Num",
   "Pow", "Add", "Sub", "Mult", "Div", "Mod", "FloorDiv", "UAdd", "USub",
   "Invert", "LShift", "RShift", "BitXor", "Tuple"}

\* lines 113-122: the first node of the walk that is not allowed, if any
WalkCheck(parsed) ==
  LET w == walk(parsed)
      bad == {i \in 1..Len(w) : w[i].kind \notin WalkAllowed}
  IN  IF bad = {} THEN Return(NoValue)
      ELSE Raise("EvalError", "Disallowed expression element",
                 w[CHOOSE i \in bad : \A j \in bad : i <= j].kind)

\* What the caller passes: isstr says whether expr is a str, parsed whether
\* ast.parse(expr, mode="eval") returned (tree is what it returned) or raised
\* SyntaxError.
Text(tree) == [isstr |-> TRUE, parsed |-> TRUE, tree |-> Expression(tree)]

Malformed == [isstr |-> TRUE, parsed |-> FALSE, tree |-> NoNode]

NotAString == [isstr |-> FALSE, parsed |-> FALSE, tree |-> NoNode]

\* lines 97-124.  stage is the statement that ended the call.
evaluate(e, variables, T) ==
  IF ~e.isstr
  THEN [stage |-> "type"] @@ Done(Raise("TypeError", "expr must be a string", ""), <<>>, <<>>)
  ELSE IF ~e.parsed
       THEN [stage |-> "parse"] @@ Done(Raise("EvalError", "Syntax error", ""), <<>>, <<>>)
  ELSE LET checked == WalkCheck(e.tree)
       IN  IF ~checked.ok THEN [stage |-> "walk"] @@ Done(checked, <<>>, <<>>)
           ELSE [stage |-> "eval"] @@ Sub(1, eval_node(e.tree.kids[1], variables, T))

\* TablesAfter for an evaluate that keeps the variables it was given in the
\* constant table
TablesAfterCaching(T, variables) ==
  [T EXCEPT !.ALLOWED_CONSTS = variables \cup {p \in @ : ~Has(variables, p[1])}]

\* evaluate and _eval_node read the tables and assign to none of them
\* (lines 47-124): the tables after a call are the tables before it.
TablesAfter(T, variables) == T

-----------------------------------------------------------------------------
(* The expressions and variables the calls are drawn from *)

C0 == Constant(PyInt(0))

C1 == Constant(PyInt(1))

C4 == Constant(PyInt(4))

CHalf == Constant(Float(1, 2))

CStr == Constant(StrValue)

\* y is bound by no caller; sin is a function name used as a variable
Atoms == {C0, C1, C4, CHalf, CStr, Name("x"), Name("y"), Name("pi"), Name("sin"), Name("f")}

ArgAtoms == {C0, C1, C4, CStr, Name("x"), Name("y")}

\* the caller's variables: none; numbers, one hiding the constant pi; a
\* callable and a number under a function's name
VariableMaps ==
  {{},
   {<<"x", PyInt(2)>>, <<"pi", PyInt(3)>>},
   {<<"x", PyInt(0)>>, <<"f", Callable>>, <<"sin", PyInt(5)>>}}

UpTo2(S) == {<<>>} \cup {<<a>> : a \in S} \cup {<<a, b>> : a \in S, b \in S}

\* Not and BitAnd are operators outside the tables
UnaryTags == UNARYOPS \cup {"Not"}

BinaryTags == BINOPS \cup {"BitAnd"}

\* names called: table functions, names outside the table, a variable that
\* is a callable (f), a variable that is a number (x), a constant (pi)
Callees == {"sqrt", "pow", "log", "factorial", "floor", "sin",
            "foo", "open", "f", "x", "pi"}

Level1 ==
  {UnaryOp(o, a) : o \in UnaryTags, a \in Atoms}
  \cup {BinOp(a, o, b) : a \in Atoms, o \in BinaryTags, b \in Atoms}
  \cup {Call(Name(g), as, <<>>) : g \in Callees, as \in UpTo2(ArgAtoms)}
  \cup {Call(Name(g), as, <<keyword(k, C1)>>) :
          g \in {"sqrt", "pow", "foo"}, as \in {<<>>, <<C4>>}, k \in {"x", ""}}
  \cup {Call(Name(g), as \o <<Starred(Name("x"))>>, <<>>) :
          g \in {"sqrt", "pow", "foo"}, as \in {<<>>, <<C4>>}}
  \cup {Tuple(es) : es \in {<<>>, <<C1>>, <<C1, C4>>}}
  \cup {Attribute(Name(m), a) : m \in {"x", "os"}, a \in {"real", "system"}}

\* sub-expressions that succeed, and that fail each in its own way
Parts ==
  {C1, Name("y"), UnaryOp("USub", C1), BinOp(C1, "Div", C0), BinOp(C4, "Mod", C0),
   Call(Name("sqrt"), <<C4>>, <<>>), Call(Name("sqrt"), <<C1, C4>>, <<>>),
   Call(Name("foo"), <<C1>>, <<>>), Tuple(<<C1, C4>>)}

Level2 ==
  {UnaryOp(o, a) : o \in {"USub", "Invert"}, a \in Parts}
  \cup {BinOp(a, o, b) : a \in Parts, o \in {"Add", "Div"}, b \in Parts}
  \cup {Call(Name(g), <<a>>, <<>>) : g \in {"sqrt", "factorial", "foo"}, a \in Parts}
  \cup {Call(Name(g), <<a, b>>, <<>>) : g \in {"pow", "foo"}, a \in Parts, b \in Parts}
  \cup {Call(a, <<C1>>, <<>>) : a \in Parts}
  \cup {Call(Attribute(Name("os"), "system"), <<CStr>>, <<>>),
        Call(Name("__import__"), <<CStr>>, <<>>),
        BinOp(Call(Name("sin"), <<BinOp(Name("pi"), "Div", C4)>>, <<>>), "Add", Name("x"))}

Trees == Atoms \cup Level1 \cup Level2

Inputs == {Text(t) : t \in Trees} \cup {Malformed, NotAString}

-----------------------------------------------------------------------------
(* The library, called again and again by one caller *)

NoResult ==
  [stage |-> "none"] @@ Done(Return(NoValue), <<>>, <<>>)

Init ==
  /\ pc = "idle"
  /\ expr = Malformed
  /\ names = {}
  /\ result = NoResult
  /\ tables = Tables
  /\ argv = <<>>
  /\ stdin = <<>>
  /\ pos = 0
  /\ stdout = <<>>
  /\ exitcode = -1

\* result = evaluate(expr, **variables)
Evaluate ==
  /\ pc = "idle"
  /\ \E e \in Inputs, v \in VariableMaps :
       /\ expr' = e
       /\ names' = v
       /\ result' = evaluate(e, v, tables)
       /\ tables' = TablesAfter(tables, v)
  /\ pc' = "done"
  /\ UNCHANGED <<argv, stdin, pos, stdout, exitcode>>

\* the same call once more
Reevaluate ==
  /\ pc = "done"
  /\ result' = evaluate(expr, names, tables)
  /\ tables' = TablesAfter(tables, names)
  /\ pc' = "again"
  /\ UNCHANGED <<expr, names, argv, stdin, pos, stdout, exitcode>>

\* the caller drops the result and is ready for another call
Forget ==
  /\ pc \in {"done", "again"}
  /\ pc' = "idle"
  /\ expr' = Malformed
  /\ names' = {}
  /\ result' = NoResult
  /\ UNCHANGED <<tables, argv, stdin, pos, stdout, exitcode>>

Next == Evaluate \/ Reevaluate \/ Forget

Spec == Init /\ [][Next]_vars

-----------------------------------------------------------------------------
(* The command line, lines 127-148 *)

MaxLines == 3

\* the classes the evaluator raises, all of them subclasses of Exception
ExceptionClasses ==
  {"EvalError", "TypeError", "ValueError", "ZeroDivisionError", "OverflowError"}

\* Caught for a handler written "except EvalError"
CaughtEvalErrorOnly(exc) == exc = "EvalError"

\* except Exception as e (lines 133 and 145)
Caught(exc) == exc \in ExceptionClasses

\* what print writes: the result, or "Error:" and the exception
Printed(r) ==
  IF r.ok THEN [error |-> FALSE, val |-> r.val, msg |-> "", arg |-> ""]
  ELSE [error |-> TRUE, val |-> NoValue, msg |-> r.msg, arg |-> r.arg]

\* a line of input: blank says that line.strip() is empty
Line(e) == [blank |-> FALSE, text |-> e]

BlankLine == [blank |-> TRUE, text |-> Malformed]

\* one expression for each way evaluate ends
CliInputs ==
  {Text(BinOp(C1, "Add", C4)), Malformed, Text(BinOp(C1, "Div", C0)),
   Text(Call(Name("sqrt"), <<C1, C4>>, <<>>)),
   Text(Call(Name("sqrt"), <<UnaryOp("USub", C1)>>, <<>>)),
   Text(Call(Name("foo"), <<C1>>, <<>>))}

CliLines == {Line(e) : e \in CliInputs} \cup {BlankLine}

RECURSIVE SeqsUpTo(_, _)
SeqsUpTo(S, n) ==
  IF n = 0 THEN {<<>>}
  ELSE LET shorter == SeqsUpTo(S, n - 1)
       IN  shorter \cup {Append(q, x) : q \in {q \in shorter : Len(q) = n - 1}, x \in S}

\* argv holds " ".join(sys.argv[1:]) when there are arguments, nothing when
\* there are none; with arguments the input is not read
InitCLI ==
  /\ pc = "main"
  /\ expr = Malformed
  /\ names = {}
  /\ result = NoResult
  /\ tables = Tables
  /\ \/ argv = <<>> /\ stdin \in SeqsUpTo(CliLines, MaxLines)
     \/ argv \in {<<e>> : e \in CliInputs} /\ stdin = <<>>
  /\ pos = 0
  /\ stdout = <<>>
  /\ exitcode = -1

\* lines 129-136
CliArgs ==
  /\ pc = "main"
  /\ Len(argv) > 0
  /\ LET r == evaluate(argv[1], {}, tables)
     IN  /\ expr' = argv[1]
         /\ result' = r
         /\ tables' = TablesAfter(tables, {})
         /\ IF ~r.ok /\ ~Caught(r.exc)
            THEN pc' = "crashed" /\ exitcode' = 1 /\ stdout' = stdout
            ELSE /\ pc' = "exit"
                 /\ exitcode' = IF r.ok THEN 0 ELSE 2
                 /\ stdout' = Append(stdout, Printed(r))
  /\ UNCHANGED <<names, argv, stdin, pos>>

\* lines 139-146, one turn of the loop
CliLine ==
  /\ pc = "main"
  /\ Len(argv) = 0
  /\ pos < Len(stdin)
  /\ pos' = pos + 1
  /\ LET line == stdin[pos + 1]
         r == evaluate(line.text, {}, tables)
     IN  IF line.blank
         THEN UNCHANGED <<pc, expr, result, tables, stdout, exitcode>>
         ELSE /\ expr' = line.text
              /\ result' = r
              /\ tables' = TablesAfter(tables, {})
              /\ IF ~r.ok /\ ~Caught(r.exc)
                 THEN pc' = "crashed" /\ exitcode' = 1 /\ stdout' = stdout
                 ELSE /\ stdout' = Append(stdout, Printed(r))
                      /\ UNCHANGED <<pc, exitcode>>
  /\ UNCHANGED <<names, argv, stdin>>

\* the input has ended
CliEnd ==
  /\ pc = "main"
  /\ Len(argv) = 0
  /\ pos = Len(stdin)
  /\ pc' = "exit"
  /\ exitcode' = 0
  /\ UNCHANGED <<expr, names, result, tables, argv, stdin, pos, stdout>>

\* lines 147-148: KeyboardInterrupt, which is no Exception, ends the loop; it
\* may come while a line is being evaluated, and that line then prints nothing
CliInterrupt ==
  /\ pc = "main"
  /\ Len(argv) = 0
  /\ pos' \in {pos, pos + 1}
  /\ pos' <= Len(stdin)
  /\ pc' = "interrupted"
  /\ exitcode' = 0
  /\ UNCHANGED <<expr, names, result, tables, argv, stdin, stdout>>

NextCLI == CliArgs \/ CliLine \/ CliEnd \/ CliInterrupt

SpecCLI == InitCLI /\ [][NextCLI]_vars

-----------------------------------------------------------------------------
(* Properties.  A path names a node of the tree of expr by the places in   *)
(* kids from the Expression node down to it: the body is <<1>>.            *)

RECURSIVE NodeAt(_, _)
NodeAt(node, path) ==
  IF path = <<>> THEN node ELSE NodeAt(node.kids[Head(path)], Tail(path))

RECURSIVE PathsOf(_)
PathsOf(node) ==
  {<<>>} \cup UNION {{<<i>> \o q : q \in PathsOf(node.kids[i])} : i \in 1..Len(node.kids)}

\* q lies strictly below p
Below(p, q) == Len(p) < Len(q) /\ SubSeq(q, 1, Len(p)) = p

\* an evaluate call has returned or raised, and its outcome is in result
Called == pc \in {"done", "again"}

Parsed == Called /\ expr.isstr /\ expr.parsed

Nodes == PathsOf(expr.tree)

At(p) == NodeAt(expr.tree, p)

Logged == {result.log[k] : k \in 1..Len(result.log)}

WalkPassed == WalkCheck(expr.tree).ok

\* calls whose target is a bare name outside the function table
RogueCalls ==
  {p \in Nodes : At(p).kind = "Call" /\ CallFunc(At(p)).kind = "Name"
                 /\ CallFunc(At(p)).id \notin ALLOWED_FUNCS}

\* calls whose target is not a bare name
ComputedCalls == {p \in Nodes : At(p).kind = "Call" /\ CallFunc(At(p)).kind # "Name"}

AttributeNodes == {p \in Nodes : At(p).kind = "Attribute"}

\* C1: the only callables evaluate applies are entries of the function
\* table, reached through a call whose target is a bare name; an expression
\* with an attribute access, a call of a computed target or a call of a name
\* outside the table (a name bound only in the variables included) ends in an
\* error.
C1_OnlyWhitelistedApplied ==
  Called =>
    /\ \A k \in 1..Len(result.applied) :
         LET a == result.applied[k]
         IN  /\ a.table = "_ALLOWED_FUNCS"
             /\ a.name \in ALLOWED_FUNCS
             /\ At(a.at).kind = "Call"
             /\ CallFunc(At(a.at)).kind = "Name"
             /\ CallFunc(At(a.at)).id = a.name
    /\ (Parsed /\ (RogueCalls \cup ComputedCalls \cup AttributeNodes) # {})
         => ~result.ok /\ result.exc \in {"EvalError", "ZeroDivisionError", "TypeError",
                                          "ValueError", "OverflowError"}

\* a call of f, which the caller bound to a callable, was reached and refused
C1_Witness ==
  /\ Parsed
  /\ Has(names, "f") /\ Get(names, "f") = Callable
  /\ \E p \in RogueCalls : CallFunc(At(p)).id = "f" /\ p \in Logged
  /\ ~result.ok /\ result.msg = "Function not allowed" /\ result.arg = "f"

UnsupportedBranches ==
  {"Unsupported constant", "Unsupported unary operator", "Unsupported binary operator",
   "Unsupported expression element", "Only direct function calls are allowed"}

\* C2 as claimed: for a tree the whitelist walk accepts, _eval_node never
\* reaches one of its unsupported branches.
C2_AcceptedTreesReduce ==
  (Parsed /\ WalkPassed) =>
     ~(~result.ok /\ result.exc = "EvalError" /\ result.msg \in UnsupportedBranches)

\* C6: an identifier is the caller's variable when the name is in the
\* variables (also when it is a constant's name too), otherwise the constant
\* of that name, otherwise the EvalError "Unknown identifier"; the function
\* table is not consulted.
C6_IdentifierResolution ==
  Parsed =>
    /\ \A p \in Nodes :
         At(p).kind = "Name" =>
           LET id == At(p).id
               r == eval_node(At(p), names, tables)
           IN  /\ Has(names, id) => r.ok /\ r.val = Get(names, id)
               /\ (~Has(names, id) /\ Has(ALLOWED_CONSTS, id))
                    => r.ok /\ r.val = Get(ALLOWED_CONSTS, id)
               /\ (~Has(names, id) /\ ~Has(ALLOWED_CONSTS, id))
                    => ~r.ok /\ r.exc = "EvalError" /\ r.msg = "Unknown identifier"
                       /\ r.arg = id
    /\ (At(<<1>>).kind = "Name" /\ result.stage = "eval")
         => Outcome(result) = Outcome(eval_node(At(<<1>>), names, tables))

\* pi was asked for while the caller had a variable pi, and the variable won
C6_Witness ==
  /\ Parsed
  /\ At(<<1>>) = Name("pi")
  /\ Has(names, "pi") /\ Has(ALLOWED_CONSTS, "pi")
  /\ result.ok /\ result.val = PyInt(3)

\* calls that carry a keyword or a starred argument
KeywordCalls ==
  {p \in Nodes : At(p).kind = "Call"
                 /\ \E i \in 2..Len(At(p).kids) : At(p).kids[i].kind \in {"keyword", "Starred"}}

\* C10: an expression with a call that carries keyword or starred arguments
\* fails in the whitelist walk, before _eval_node is entered: nothing is
\* evaluated and no function is applied.
C10_KeywordCallsNeverEvaluated ==
  (Parsed /\ KeywordCalls # {}) =>
     /\ ~result.ok /\ result.exc = "EvalError" /\ result.stage = "walk"
     /\ result.msg = "Disallowed expression element"
     /\ result.log = <<>> /\ result.applied = <<>>

\* sqrt(4, x=1): a table function, a good argument and a keyword
C10_Witness ==
  /\ Parsed
  /\ At(<<1>>) = Call(Name("sqrt"), <<C4>>, <<keyword("x", C1)>>)
  /\ ~result.ok /\ result.arg = "keyword"

-----------------------------------------------------------------------------

ZeroDivisions ==
  {p \in Logged :
     /\ At(p).kind = "BinOp"
     /\ At(p).kids[2].kind \in DivOps
     /\ (p \o <<RightAt>>) \in Logged
     /\ LET r == eval_node(At(p).kids[RightAt], names, tables)
        IN  r.ok /\ IsNumber(r.val) /\ IsZero(r.val)
     /\ eval_node(At(p).kids[LeftAt], names, tables).ok}

\* C4 as claimed: when /, // or % is evaluated with a right operand equal to
\* zero, evaluate fails with an EvalError that says division by zero.
C4_DivisionByZeroIsEvalError ==
  (Parsed /\ ZeroDivisions # {}) =>
     /\ ~result.ok
     /\ result.exc = "EvalError"

\* the call the evaluation ended in, when it ended in a table function
FailedInFunction ==
  /\ ~result.ok
  /\ result.stage = "eval"
  /\ result.applied # <<>>
  /\ LET a == result.applied[Len(result.applied)]
     IN  /\ ~ApplyFunc(a.name, a.args).ok
         /\ Outcome(result) = ApplyFunc(a.name, a.args)

\* C5 as claimed: a failure of evaluate on a string is an EvalError (the one
\* class the code has for the three kinds), also when a table function is
\* called with the wrong number of arguments or outside its domain.
C5_OnlyEvalErrorEscapes ==
  (Parsed /\ FailedInFunction) => result.exc = "EvalError"

Operand(p, i) == eval_node(At(p).kids[i], names, tables)

Whole(p) == eval_node(At(p), names, tables)

LoggedUnder(r, i) == {k \in 1..Len(r.log) : Len(r.log[k]) > 0 /\ r.log[k][1] = i}

\* the first argument of the call at p that fails, 0 if none does
FirstFailing(p) ==
  LET n == Len(CallArgs(At(p)))
      failing == {i \in 1..n : ~Operand(p, ArgAt(i)).ok}
  IN  IF failing = {} THEN 0 ELSE CHOOSE i \in failing : \A j \in failing : i <= j

\* C9: evaluation goes left to right and stops at the first failure.  In a
\* binary operation the left operand is evaluated before the right one, and
\* when the left one fails its error is the outcome and the right one is not
\* evaluated; in a call of a table function the arguments are evaluated in
\* order, and the first that fails gives the outcome, no later one being
\* evaluated and the function not being applied.
C9_LeftToRightFailFast ==
  (Parsed /\ WalkPassed) =>
    \A p \in Nodes :
      /\ At(p).kind = "BinOp" =>
           LET l == Operand(p, LeftAt)
               r == Operand(p, RightAt)
               b == Whole(p)
           IN  /\ ~l.ok => Outcome(b) = Outcome(l) /\ LoggedUnder(b, RightAt) = {}
               /\ (l.ok /\ ~r.ok) => Outcome(b) = Outcome(r)
               /\ \A j \in LoggedUnder(b, LeftAt), k \in LoggedUnder(b, RightAt) : j < k
      /\ (At(p).kind = "Call" /\ CallFunc(At(p)).kind = "Name"
          /\ CallFunc(At(p)).id \in ALLOWED_FUNCS) =>
           LET b == Whole(p)
               n == Len(CallArgs(At(p)))
               f == FirstFailing(p)
           IN  /\ f > 0 =>
                    /\ Outcome(b) = Outcome(Operand(p, ArgAt(f)))
                    /\ \A i \in (f + 1)..n : LoggedUnder(b, ArgAt(i)) = {}
                    /\ \A k \in 1..Len(b.applied) : b.applied[k].at # <<>>
               /\ \A i \in 1..n, j \in 1..n :
                    i < j => \A k \in LoggedUnder(b, ArgAt(i)), m \in LoggedUnder(b, ArgAt(j)) :
                               k < m
      /\ p = <<1>> => Outcome(result) = Outcome(Whole(p))

\* 1/0 + y: both operands fail, and evaluate reports the division by zero
C9_Witness ==
  /\ Parsed
  /\ At(<<1>>) = BinOp(BinOp(C1, "Div", C0), "Add", Name("y"))
  /\ ~Operand(<<1>>, RightAt).ok
  /\ Operand(<<1>>, RightAt).exc = "EvalError"
  /\ result.exc = "ZeroDivisionError"
  /\ (<<1, RightAt>>) \notin Logged

-----------------------------------------------------------------------------

\* what the loop prints for these lines when no line stops it
RECURSIVE OutputOf(_)
OutputOf(lines) ==
  IF lines = <<>> THEN <<>>
  ELSE LET rest == OutputOf(Tail(lines))
       IN  IF Head(lines).blank THEN rest
           ELSE <<Printed(evaluate(Head(lines).text, {}, Tables))>> \o rest

\* C8: reading lines, a failing expression never ends the loop: each
\* non-blank line read gives exactly one line of output, the result or the
\* error, in the order of the input, and the loop ends only at the end of the
\* input (or when it is interrupted).
C8_StreamNeverAborts ==
  Len(argv) = 0 =>
    /\ pc # "crashed"
    /\ pc \in {"main", "exit"} => stdout = OutputOf(SubSeq(stdin, 1, pos))
    /\ pc = "exit" => pos = Len(stdin)
    /\ pc = "interrupted" =>
         stdout \in {OutputOf(SubSeq(stdin, 1, k)) : k \in {pos - 1, pos} \cap 0..Len(stdin)}

\* the input is over; its first line failed with an exception that is no
\* EvalError, and the line after it was evaluated and printed
C8_Witness ==
  /\ pc = "exit" /\ Len(argv) = 0
  /\ Len(stdin) >= 2
  /\ stdin[1] = Line(Text(BinOp(C1, "Div", C0)))
  /\ stdin[2] = Line(Text(BinOp(C1, "Add", C4)))
  /\ Len(stdout) >= 2
  /\ stdout[1].error /\ ~stdout[2].error /\ stdout[2].val = PyInt(5)

====
